---------------------------- MODULE Spec2Model ----------------------------
(***************************************************************************)
(* Model of SASQUATCH_UNIVERSAL_BUILDER.py: environment detection, source  *)
(* acquisition, the patch rules that rewrite the legacy source tree, and   *)
(* the build step with its exit codes.                                     *)
(*                                                                         *)
(* Text is modelled as Python str values: sequences of one-character       *)
(* strings.  Every str operation the program uses (replace, split, join,   *)
(* startswith, in, strip, re.sub) is an operator that computes what the    *)
(* Python operation computes on such a sequence.                           *)
(***************************************************************************)
EXTENDS Integers, Sequences, FiniteSets, TLC

VARIABLES
    pc,        \* position of main(): the step that runs next, or "exit"
    host,      \* what the process observes of its host (markers, PATH, environ)
    env,       \* the dict detect_env() returned (NoEnv before it ran)
    dirs,      \* the directories that exist under the build directory
    files,     \* the files that exist: a function from path to content
    out,       \* the messages log() printed so far, in order
    writes,    \* the steps that modified a file of the tree so far, in order
    procs,     \* the subprocesses run_cmd started so far, in order
    exitCode,  \* the process exit status (NoExit while running)
    last,      \* the patch rule applied last ("none" before any)
    before     \* the files as they were before the rule applied last

vars == <<pc, host, env, dirs, files, out, writes, procs, exitCode, last, before>>

-----------------------------------------------------------------------------
(* Python str operations *)

NL == "\n"

CR == "\r"

TAB == "\t"

\* str.isspace() for the characters of the model's alphabet (regex \s, str.strip)
IsWs(c) == c \in {" ", TAB, NL, CR}

\* s[i-1:].startswith(p), i a 1-based position
StartsWithAt(s, p, i) ==
    /\ i + Len(p) - 1 <= Len(s)
    /\ \A k \in 1..Len(p) : s[i + k - 1] = p[k]

\* s.startswith(p)
StartsWith(s, p) == StartsWithAt(s, p, 1)

\* p in s
Contains(s, p) == \E i \in 1..(Len(s) - Len(p) + 1) : StartsWithAt(s, p, i)

\* the least element of a non-empty set of integers
Min(S) == CHOOSE x \in S : \A y \in S : x <= y

RECURSIVE ReplaceFrom(_, _, _, _)
\* the scan of str.replace from position i: the text up to the next
\* occurrence of old is kept, the occurrence becomes new, and the scan goes on
\* after the occurrence
ReplaceFrom(s, old, new, i) ==
    LET hits == {j \in i..(Len(s) - Len(old) + 1) : StartsWithAt(s, old, j)}
    IN  IF hits = {} THEN SubSeq(s, i, Len(s))
        ELSE SubSeq(s, i, Min(hits) - 1) \o new
             \o ReplaceFrom(s, old, new, Min(hits) + Len(old))

\* s.replace(old, new) for a non-empty old: leftmost, non-overlapping, one pass
Replace(s, old, new) == ReplaceFrom(s, old, new, 1)

RECURSIVE SplitFrom(_, _)
\* the lines of s from position i on
SplitFrom(s, i) ==
    LET nls == {j \in i..Len(s) : s[j] = NL}
    IN  IF nls = {} THEN <<SubSeq(s, i, Len(s))>>
        ELSE <<SubSeq(s, i, Min(nls) - 1)>> \o SplitFrom(s, Min(nls) + 1)

\* s.split('\n')
Split(s) == SplitFrom(s, 1)

RECURSIVE Join(_)
\* '\n'.join(lines)
Join(lines) ==
    IF Len(lines) = 0 THEN <<>>
    ELSE IF Len(lines) = 1 THEN lines[1]
    ELSE lines[1] \o <<NL>> \o Join(Tail(lines))

RECURSIVE SkipWs(_, _)
\* the first position >= i of s that holds no whitespace (Len(s) + 1 if none)
SkipWs(s, i) ==
    IF i <= Len(s) /\ IsWs(s[i]) THEN SkipWs(s, i + 1) ELSE i

\* line.strip().startswith(p), for a p that starts with no whitespace
StripStartsWith(line, p) == StartsWithAt(line, p, SkipWs(line, 1))

\* Reading a file opened in text mode: universal newlines turn "\r\n" and a
\* lone "\r" into "\n" (open(path, 'r'), newline=None).
ReadText(s) == Replace(Replace(s, <<CR, NL>>, <<NL>>), <<CR>>, <<NL>>)

\* lines.insert(k, x) for 0 <= k <= len(lines); k is the 0-based Python index
Insert(lines, k, x) == SubSeq(lines, 1, k) \o <<x>> \o SubSeq(lines, k + 1, Len(lines))

-----------------------------------------------------------------------------
(* The string literals of the patch rules *)

S_extern ==
    <<"e","x","t","e","r","n"," ","i","n","t"," ","v","e","r","b","o","s",
      "e",";">>
S_intverbose0 ==
    <<"i","n","t"," ","v","e","r","b","o","s","e"," ","="," ","0",";">>
S_int ==
    <<"i","n","t">>
S_verbose ==
    <<"v","e","r","b","o","s","e">>
S_include ==
    <<"#","i","n","c","l","u","d","e">>
S_comment ==
    <<"/","*"," ","G","l","o","b","a","l"," ","v","e","r","b","o","s","e",
      " ","v","a","r","i","a","b","l","e"," ","d","e","f","i","n","i","t",
      "i","o","n"," ","*","/">>
S_ifndef ==
    <<"#","i","f","n","d","e","f"," ","F","N","M","_","E","X","T","M","A",
      "T","C","H">>
fnm_fix ==
    <<"#","i","f","n","d","e","f"," ","F","N","M","_","E","X","T","M","A",
      "T","C","H","\n","#","d","e","f","i","n","e"," ","F","N","M","_","E",
      "X","T","M","A","T","C","H"," ","0","\n","#","e","n","d","i","f","\n",
      "\n">>
S_xzdisabled ==
    <<"/","*"," ","X","Z"," ","s","u","p","p","o","r","t"," ","d","i","s",
      "a","b","l","e","d"," ","*","/","\n">>
S_Werror ==
    <<"-","W","e","r","r","o","r">>
S_CFLAGS ==
    <<"C","F","L","A","G","S">>
S_LZMA ==
    <<".","/","L","Z","M","A">>
S_LIBS ==
    <<"L","I","B","S"," ","+","=">>
S_llzma ==
    <<"-","l","l","z","m","a">>
S_XZ ==
    <<"-","D","X","Z","_","S","U","P","P","O","R","T">>
S_cflags_a ==
    <<"C","F","L","A","G","S"," ",":","="," ","-","g"," ","-","O","2"," ",
      "-","I">>
S_cflags_b ==
    <<"/","i","n","c","l","u","d","e"," ","-","I","."," ","-","I",".","/",
      "L","Z","M","A","/","l","z","m","a","4","6","5","/","C"," ","-","I",
      ".","/","L","Z","M","A","/","l","z","m","a","l","t"," ","-","I",".",
      "/","L","Z","M","A","/","l","z","m","a","d","a","p","t","i","v","e",
      "/","C","/","7","z","i","p","/","C","o","m","p","r","e","s","s","/",
      "L","Z","M","A","_","L","i","b">>
S_libs_a ==
    <<"L","I","B","S"," ","+","="," ","-","l","z"," ","-","l","m"," ","-",
      "L">>
S_libs_b ==
    <<"/","l","i","b"," ","-","l","l","z","o","2"," ","-","l","l","z","m",
      "a"," ","-","L",".","/","L","Z","M","A","/","l","z","m","a","d","a",
      "p","t","i","v","e","/","C","/","7","z","i","p","/","C","o","m","p",
      "r","e","s","s","/","L","Z","M","A","_","L","i","b"," ","-","l","l",
      "z","m","a","l","i","b">>

-----------------------------------------------------------------------------
(* The tree.  Paths are relative to BUILD_DIR; the patch rules run with     *)
(* squashfs4.3 as working directory and tools_path "squashfs-tools".        *)

DIR_REPO == "repo"

DIR_SRC == "squashfs4.3"

DIR_TOOLS == "squashfs4.3/squashfs-tools"

ARCHIVE == "squashfs4.3.tar.gz"

PATCH0 == "repo/patches/patch0.txt"

SASQUATCH_PATCH == "squashfs4.3/sasquatch.patch"

ERROR_H == "squashfs4.3/squashfs-tools/error.h"

UNSQUASHFS_C == "squashfs4.3/squashfs-tools/unsquashfs.c"

XZ_WRAPPER_C == "squashfs4.3/squashfs-tools/xz_wrapper.c"

XZ_WRAPPER_H == "squashfs4.3/squashfs-tools/xz_wrapper.h"

MAKEFILE == "squashfs4.3/squashfs-tools/Makefile"

ARTIFACT == "squashfs4.3/squashfs-tools/sasquatch"

LOCAL_BIN == "sasquatch_binary"

\* os.path.exists(path) for a file
Exists(fs, path) == path \in DOMAIN fs

\* with open(path, 'w') as f: f.write(content)
WriteFile(fs, path, content) ==
    [p \in DOMAIN fs \cup {path} |-> IF p = path THEN content ELSE fs[p]]

-----------------------------------------------------------------------------
(* fix_error_header *)

\* One attempt of r'^\s*int\s+verbose\s*(=\s*0)?\s*;' (re.MULTILINE) at
\* position i: the position after the match, or 0 when there is no match at i.
\* Every \s* is followed by a non-space literal, so the greedy choice is the
\* only one; the optional group is taken exactly when "=" follows.
VerboseMatchEnd(s, i) ==
    LET a == SkipWs(s, i)
        b == a + Len(S_int)
        c == SkipWs(s, b)
        d == SkipWs(s, c + Len(S_verbose))
        e == SkipWs(s, d + 1)
        f == SkipWs(s, e + 1)
    IN  IF /\ (i = 1 \/ s[i - 1] = NL)
           /\ StartsWithAt(s, S_int, a)
           /\ c > b
           /\ StartsWithAt(s, S_verbose, c)
        THEN IF d <= Len(s) /\ s[d] = ";" THEN d + 1
             ELSE IF /\ d <= Len(s) /\ s[d] = "="
                     /\ e <= Len(s) /\ s[e] = "0"
                     /\ f <= Len(s) /\ s[f] = ";"
                  THEN f + 1
                  ELSE 0
        ELSE 0

RECURSIVE SubVerboseFrom(_, _)
\* the scan of re.sub from position i: the text up to the leftmost match is
\* kept, the match becomes 'extern int verbose;', and the scan goes on after it
SubVerboseFrom(s, i) ==
    LET hits == {j \in i..Len(s) : VerboseMatchEnd(s, j) > 0}
    IN  IF hits = {} THEN SubSeq(s, i, Len(s))
        ELSE SubSeq(s, i, Min(hits) - 1) \o S_extern
             \o SubVerboseFrom(s, VerboseMatchEnd(s, Min(hits)))

\* re.sub(pattern, 'extern int verbose;', content, flags=re.MULTILINE)
SubVerbose(s) == SubVerboseFrom(s, 1)

\* the loop of lines 210-213: the 0-based index of the last line whose
\* stripped text starts with '#include', -1 when there is none
LastInclude(lines) ==
    LET hits == {i \in 1..Len(lines) : StripStartsWith(lines[i], S_include)}
    IN  IF hits = {} THEN -1
        ELSE (CHOOSE i \in hits : \A j \in hits : j <= i) - 1

\* the four lines.insert calls of lines 216-219
InsertDefinition(lines, last_include) ==
    Insert(Insert(Insert(Insert(lines,
        last_include + 1, <<>>),
        last_include + 2, S_comment),
        last_include + 3, S_intverbose0),
        last_include + 4, <<>>)

\* lines 185-200: the header's definition becomes a declaration
DeclareInHeader(fs) ==
    IF Exists(fs, ERROR_H)
    THEN WriteFile(fs, ERROR_H, SubVerbose(ReadText(fs[ERROR_H])))
    ELSE fs

\* lines 208-224 for the content read from unsquashfs.c and its lines: the
\* rule's result, hasH telling whether error.h was written
DefineAfterIncludes(fs1, hasH, content, lines, last_include) ==
    IF ~Contains(content, S_intverbose0) /\ last_include >= 0
    THEN [files |-> WriteFile(fs1, UNSQUASHFS_C,
                              Join(InsertDefinition(lines, last_include))),
          out |-> <<"Fixing duplicate symbol 'verbose'...">>
                  \o (IF hasH THEN <<"Fixed error.h">> ELSE <<>>)
                  \o <<"Fixed unsquashfs.c">>,
          wrote |-> <<"fix_error_header">>]
    ELSE [files |-> fs1,
          out |-> <<"Fixing duplicate symbol 'verbose'...">>
                  \o (IF hasH THEN <<"Fixed error.h">> ELSE <<>>),
          wrote |-> IF hasH THEN <<"fix_error_header">> ELSE <<>>]

\* lines 209-213
DefineInLines(fs1, hasH, content, lines) ==
    DefineAfterIncludes(fs1, hasH, content, lines, LastInclude(lines))

\* lines 203-206
DefineInUnsquashfs(fs1, hasH) ==
    IF Exists(fs1, UNSQUASHFS_C)
    THEN DefineInLines(fs1, hasH, ReadText(fs1[UNSQUASHFS_C]),
                       Split(ReadText(fs1[UNSQUASHFS_C])))
    ELSE [files |-> fs1,
          out |-> <<"Fixing duplicate symbol 'verbose'...">>
                  \o (IF hasH THEN <<"Fixed error.h">> ELSE <<>>),
          wrote |-> IF hasH THEN <<"fix_error_header">> ELSE <<>>]

\* The rule as a function of the files: the files after it, the messages it
\* logs, and its own name if it opened a file for writing.
fix_error_header(fs) == DefineInUnsquashfs(DeclareInHeader(fs), Exists(fs, ERROR_H))

-----------------------------------------------------------------------------
(* fix_fnm_extmatch *)

\* lines 237-239
PrependGuard(content) ==
    IF ~StartsWith(content, S_ifndef) THEN fnm_fix \o content ELSE content

fix_fnm_extmatch(fs) ==
    IF Exists(fs, UNSQUASHFS_C)
    THEN [files |-> WriteFile(fs, UNSQUASHFS_C,
                              PrependGuard(ReadText(fs[UNSQUASHFS_C]))),
          out |-> <<"Fixing FNM_EXTMATCH compatibility...", "Fixed FNM_EXTMATCH">>,
          wrote |-> <<"fix_fnm_extmatch">>]
    ELSE [files |-> fs,
          out |-> <<"Fixing FNM_EXTMATCH compatibility...">>,
          wrote |-> <<>>]

-----------------------------------------------------------------------------
(* disable_xz_wrapper *)

disable_xz_wrapper(fs) ==
    [files |-> [p \in DOMAIN fs |->
                    IF p \in {XZ_WRAPPER_C, XZ_WRAPPER_H}
                    THEN S_xzdisabled ELSE fs[p]],
     out |-> <<"Disabling XZ wrapper...">>
             \o (IF Exists(fs, XZ_WRAPPER_C) THEN <<"Disabled xz_wrapper.c">> ELSE <<>>)
             \o (IF Exists(fs, XZ_WRAPPER_H) THEN <<"Disabled xz_wrapper.h">> ELSE <<>>),
     wrote |-> IF Exists(fs, XZ_WRAPPER_C) \/ Exists(fs, XZ_WRAPPER_H)
               THEN <<"disable_xz_wrapper">> ELSE <<>>]

-----------------------------------------------------------------------------
(* fix_makefile *)

\* line 278: content.replace("-Werror", "")
StripWerror(content) == Replace(content, S_Werror, <<>>)

\* lines 283-285: the CFLAGS line that references ./LZMA is replaced wholesale
FixCflagsLine(line, prefix) ==
    IF StartsWith(line, S_CFLAGS) /\ Contains(line, S_LZMA)
    THEN S_cflags_a \o prefix \o S_cflags_b
    ELSE line

\* lines 288-290: the LIBS += line that contains -llzma is replaced wholesale
FixLibsLine(line, prefix) ==
    IF StartsWith(line, S_LIBS) /\ Contains(line, S_llzma)
    THEN S_libs_a \o prefix \o S_libs_b
    ELSE line

\* lines 293-295: -DXZ_SUPPORT is removed from every line that holds it
StripXzSupport(line) ==
    IF Contains(line, S_XZ) THEN Replace(line, S_XZ, <<>>) ELSE line

\* lines 283-285: the loop over the lines
FixCflags(lines, prefix) ==
    [i \in 1..Len(lines) |-> FixCflagsLine(lines[i], prefix)]

\* lines 288-290: the loop over the lines
FixLibs(lines, prefix) ==
    [i \in 1..Len(lines) |-> FixLibsLine(lines[i], prefix)]

\* lines 293-295: the loop over the lines
RemoveXzSupport(lines) ==
    [i \in 1..Len(lines) |-> StripXzSupport(lines[i])]

\* lines 280-297: the three loops run one after the other over all the lines
FixMakefileLines(lines, prefix) ==
    RemoveXzSupport(FixLibs(FixCflags(lines, prefix), prefix))

\* lines 274-297: the new content of the Makefile
FixMakefileContent(content, prefix) ==
    Join(FixMakefileLines(Split(StripWerror(content)), prefix))

fix_makefile(fs, prefix) ==
    IF ~Exists(fs, MAKEFILE)
    THEN [files |-> fs,
          out |-> <<"Fixing Makefile...", "Error: Makefile not found!">>,
          wrote |-> <<>>]
    ELSE [files |-> WriteFile(fs, MAKEFILE,
                              FixMakefileContent(ReadText(fs[MAKEFILE]), prefix)),
          out |-> <<"Fixing Makefile...", "Makefile fixed">>,
          wrote |-> <<"fix_makefile">>]

-----------------------------------------------------------------------------
(* apply_universal_fixes: the four rules in the order of lines 308-311 *)

\* the result of a rule run after the rules that gave acc
Then(acc, r) ==
    [files |-> r.files, out |-> acc.out \o r.out, wrote |-> acc.wrote \o r.wrote]

ThenFnmExtmatch(acc) == Then(acc, fix_fnm_extmatch(acc.files))

ThenXzWrapper(acc) == Then(acc, disable_xz_wrapper(acc.files))

ThenMakefile(acc, prefix) == Then(acc, fix_makefile(acc.files, prefix))

\* r with the messages pre before its own and post after them
WithLog(pre, r, post) ==
    [files |-> r.files, out |-> pre \o r.out \o post, wrote |-> r.wrote]

apply_universal_fixes(fs, prefix) ==
    WithLog(<<"Applying universal fixes for modern compilers...">>,
            ThenMakefile(ThenXzWrapper(ThenFnmExtmatch(fix_error_header(fs))),
                         prefix),
            <<"All fixes applied">>)

-----------------------------------------------------------------------------
(* detect_env *)

S_com_termux ==
    <<"c","o","m",".","t","e","r","m","u","x">>

TERMUX_DEFAULT_PREFIX ==
    <<"/","d","a","t","a","/","d","a","t","a","/","c","o","m",".","t","e",
      "r","m","u","x","/","f","i","l","e","s","/","u","s","r">>

S_usr ==
    <<"/","u","s","r">>

S_usr_local ==
    <<"/","u","s","r","/","l","o","c","a","l">>

S_opt ==
    <<"/","o","p","t">>

\* Python's None, where the program stores it in a dict field
None == "None"

\* the package managers shutil.which is asked for, in the order of the elif chain
PkgMgrs == <<"apt", "pacman", "dnf", "apk">>

TermuxPackages ==
    <<"git", "patch", "make", "clang", "zlib", "liblzma", "xz-utils", "lzo",
      "lzo2", "binutils", "wget">>

AptPackages ==
    <<"git", "patch", "make", "gcc", "g++", "zlib1g-dev", "liblzma-dev",
      "liblzo2-dev", "binutils", "wget">>

PacmanPackages ==
    <<"git", "patch", "make", "gcc", "zlib", "xz", "lzo", "binutils", "wget">>

DnfPackages ==
    <<"git", "patch", "make", "gcc", "gcc-c++", "zlib-devel", "xz-devel",
      "lzo-devel", "binutils", "wget">>

ApkPackages ==
    <<"git", "patch", "make", "gcc", "g++", "zlib-dev", "xz-dev", "lzo-dev",
      "binutils", "wget">>

\* os.environ.get(name, default)
EnvironGet(environ, name, default) ==
    IF name \in DOMAIN environ THEN environ[name] ELSE default

\* The dict of lines 71-77 (the 'os' field, which only the banner line of
\* main prints, is left out).
DefaultInfo ==
    [is_termux |-> FALSE, prefix |-> S_usr_local, pkg_mgr |-> None,
     packages |-> <<>>]

\* detect_env with the package managers probed before the Termux marker
detect_env_PkgMgrFirst(h) ==
    IF "apt" \in h.which
    THEN [DefaultInfo EXCEPT !.pkg_mgr = "apt", !.prefix = S_usr,
                             !.packages = AptPackages]
    ELSE IF "pacman" \in h.which
    THEN [DefaultInfo EXCEPT !.pkg_mgr = "pacman", !.prefix = S_usr,
                             !.packages = PacmanPackages]
    ELSE IF "dnf" \in h.which
    THEN [DefaultInfo EXCEPT !.pkg_mgr = "dnf", !.prefix = S_usr,
                             !.packages = DnfPackages]
    ELSE IF "apk" \in h.which
    THEN [DefaultInfo EXCEPT !.pkg_mgr = "apk", !.prefix = S_usr,
                             !.packages = ApkPackages]
    ELSE IF h.termux_dir \/ Contains(EnvironGet(h.environ, "PREFIX", <<>>), S_com_termux)
    THEN [is_termux |-> TRUE,
          prefix |-> EnvironGet(h.environ, "PREFIX", TERMUX_DEFAULT_PREFIX),
          pkg_mgr |-> "pkg",
          packages |-> TermuxPackages]
    ELSE DefaultInfo

\* lines 80-106.  h.termux_dir is os.path.exists('/data/data/com.termux'),
\* h.which the set of names shutil.which resolves, h.environ os.environ.
detect_env(h) ==
    IF h.termux_dir \/ Contains(EnvironGet(h.environ, "PREFIX", <<>>), S_com_termux)
    THEN [is_termux |-> TRUE,
          prefix |-> EnvironGet(h.environ, "PREFIX", TERMUX_DEFAULT_PREFIX),
          pkg_mgr |-> "pkg",
          packages |-> TermuxPackages]
    ELSE IF "apt" \in h.which
    THEN [DefaultInfo EXCEPT !.pkg_mgr = "apt", !.prefix = S_usr,
                             !.packages = AptPackages]
    ELSE IF "pacman" \in h.which
    THEN [DefaultInfo EXCEPT !.pkg_mgr = "pacman", !.prefix = S_usr,
                             !.packages = PacmanPackages]
    ELSE IF "dnf" \in h.which
    THEN [DefaultInfo EXCEPT !.pkg_mgr = "dnf", !.prefix = S_usr,
                             !.packages = DnfPackages]
    ELSE IF "apk" \in h.which
    THEN [DefaultInfo EXCEPT !.pkg_mgr = "apk", !.prefix = S_usr,
                             !.packages = ApkPackages]
    ELSE DefaultInfo

\* env before detect_env has run
NoEnv == [is_termux |-> FALSE, prefix |-> <<>>, pkg_mgr |-> "undetected",
          packages |-> <<>>]

-----------------------------------------------------------------------------
(* The hosts, archives and trees the runs are checked on *)

\* the largest os.cpu_count() a host reports (0 stands for None)
MaxCpu == 2

PRISTINE_ERROR_H ==
    <<"/","*","e","*","/","\n">>

PATCHED_ERROR_H ==
    <<"i","n","t"," ","v","e","r","b","o","s","e",";","\n">>

PRISTINE_UNSQUASHFS_C ==
    <<"#","i","n","c","l","u","d","e"," ","<","a",".","h",">","\n","i","n",
      "t"," ","x",";","\n">>

PRISTINE_XZ ==
    <<"x","z","\n">>

PRISTINE_MAKEFILE ==
    <<"C","F","L","A","G","S"," ","+","="," ","-","W","a","l","l","\n","L",
      "I","B","S"," ","+","="," ","-","l","z","\n">>

PATCHED_MAKEFILE ==
    <<"C","F","L","A","G","S"," ","+","="," ","-","I",".","/","L","Z","M",
      "A"," ","-","W","e","r","r","o","r","\n","L","I","B","S"," ","+","=",
      " ","-","l","l","z","m","a"," ","-","D","X","Z","_","S","U","P","P",
      "O","R","T","\n">>

PATCH0_TEXT ==
    <<"-","-","-"," ","a","\r","\n">>

TARBALL ==
    <<"t","g","z">>

TRUNCATED_TARBALL ==
    <<"t","g">>

EmptyFiles == [p \in {} |-> <<>>]

\* the five files of squashfs4.3/squashfs-tools the patch rules target
ToolsFiles(error_h, unsquashfs_c, makefile) ==
    (ERROR_H :> error_h) @@ (UNSQUASHFS_C :> unsquashfs_c)
    @@ (XZ_WRAPPER_C :> PRISTINE_XZ) @@ (XZ_WRAPPER_H :> PRISTINE_XZ)
    @@ (MAKEFILE :> makefile)

\* what squashfs4.3.tar.gz holds: the whole legacy tree
PristineFiles == ToolsFiles(PRISTINE_ERROR_H, PRISTINE_UNSQUASHFS_C, PRISTINE_MAKEFILE)

\* the legacy tree after patch0.txt applied
PatchedFiles == ToolsFiles(PATCHED_ERROR_H, PRISTINE_UNSQUASHFS_C, PATCHED_MAKEFILE)

\* the legacy tree when only some hunks of patch0.txt applied
HalfPatchedFiles == ToolsFiles(PATCHED_ERROR_H, PRISTINE_UNSQUASHFS_C, PRISTINE_MAKEFILE)

\* fs restricted to the paths in keep
Restrict(fs, keep) == [p \in DOMAIN fs \cap keep |-> fs[p]]

\* What `tar -zxf squashfs4.3.tar.gz` leaves behind, by the archive file it
\* finds: its exit status, and the directories and files it created.  A
\* complete archive extracts whole or breaks off part-way (rc 2); a truncated
\* one always breaks off part-way; without the file nothing is extracted.
PartialExtractions ==
    { [rc |-> 2, dirs |-> {}, files |-> EmptyFiles],
      [rc |-> 2, dirs |-> {DIR_SRC}, files |-> EmptyFiles],
      [rc |-> 2, dirs |-> {DIR_SRC, DIR_TOOLS},
       files |-> Restrict(PristineFiles, {ERROR_H, UNSQUASHFS_C})],
      [rc |-> 2, dirs |-> {DIR_SRC, DIR_TOOLS}, files |-> PristineFiles] }

TarOutcomes(fs) ==
    IF ~Exists(fs, ARCHIVE)
    THEN {[rc |-> 2, dirs |-> {}, files |-> EmptyFiles]}
    ELSE IF fs[ARCHIVE] = TARBALL
    THEN {[rc |-> 0, dirs |-> {DIR_SRC, DIR_TOOLS}, files |-> PristineFiles]}
         \cup PartialExtractions
    ELSE PartialExtractions

\* What `wget -q SQUASHFS_URL` leaves behind: its exit status and the archive
\* file (complete, cut short by a broken transfer, or none).
WgetOutcomes ==
    { [rc |-> 0, files |-> (ARCHIVE :> TARBALL)],
      [rc |-> 4, files |-> (ARCHIVE :> TRUNCATED_TARBALL)],
      [rc |-> 4, files |-> EmptyFiles] }

\* What `git clone REPO_URL repo` leaves behind
CloneOutcomes ==
    { [rc |-> 0, dirs |-> {DIR_REPO}, files |-> (PATCH0 :> PATCH0_TEXT)],
      [rc |-> 128, dirs |-> {}, files |-> EmptyFiles] }

\* What `patch -p0 -f -i sasquatch.patch` does to the tools files that exist:
\* every hunk applied, some applied, none applied.
PatchOutcomes(fs) ==
    { [rc |-> 0, files |-> Restrict(PatchedFiles, DOMAIN fs) @@ fs],
      [rc |-> 1, files |-> Restrict(HalfPatchedFiles, DOMAIN fs) @@ fs],
      [rc |-> 1, files |-> fs] }

\* os.environ: the variables the program or its build read
Environs ==
    { EmptyFiles,
      ("PREFIX" :> TERMUX_DEFAULT_PREFIX),
      ("PREFIX" :> S_opt),
      ("PREFIX" :> <<>>),
      ("CC" :> "gcc") @@ ("CXX" :> "g++"),
      ("PREFIX" :> TERMUX_DEFAULT_PREFIX) @@ ("CC" :> "gcc") @@ ("CXX" :> "g++"),
      ("PREFIX" :> S_opt) @@ ("CC" :> "gcc") @@ ("CXX" :> "g++") }

PkgMgrSet == {PkgMgrs[i] : i \in 1..Len(PkgMgrs)}

\* every host detect_env is checked on
AllHosts ==
    [termux_dir : BOOLEAN, which : SUBSET PkgMgrSet, environ : Environs]

\* the hosts whole runs are checked on
RunHosts ==
    { h \in AllHosts :
        /\ h.which \in {{}, {"apt"}, {"pacman", "apk"}}
        /\ h.environ \in { EmptyFiles, ("PREFIX" :> TERMUX_DEFAULT_PREFIX),
                           ("CC" :> "gcc") @@ ("CXX" :> "g++") }
        /\ h.termux_dir => h.which = {} }

\* a build directory left by an earlier run
StaleFiles == (MAKEFILE :> PATCHED_MAKEFILE) @@ (ARTIFACT :> <<"E","L","F">>)

-----------------------------------------------------------------------------
(* main: one action per step of the pipeline *)

\* exitCode while the process runs
NoExit == 0 - 1

\* a subprocess started by run_cmd: subprocess.run(cmd, shell=True, ...) is
\* given no env argument, so the child inherits os.environ
Proc(cmd, rc) == [cmd |-> cmd, rc |-> rc, environ |-> host.environ]

\* line 334: run_cmd(f"make -j{nproc}")
MakeProc(nproc, rc) ==
    [cmd |-> "make -j", jobs |-> nproc, rc |-> rc, environ |-> host.environ]

\* lines 329-332: the environment build_and_deploy prepares for the build
build_env(environ, e) ==
    IF e.is_termux
    THEN ("CC" :> "clang") @@ ("CXX" :> "clang++") @@ environ
    ELSE environ

\* line 326: nproc = os.cpu_count() or 2
Nproc(cpu_count) == IF cpu_count = 0 THEN 2 ELSE cpu_count

\* run_cmd's message for a failed command that is not silent (lines 62-67)
FailedMsg(cmd, rc) == IF rc # 0 THEN <<"Command failed: " \o cmd>> ELSE <<>>

\* the steps inside main's try block, in order
TrySteps ==
    {"detect_env", "install_deps", "setup_source", "apply_patches",
     "fix_error_header", "fix_fnm_extmatch", "disable_xz_wrapper",
     "fix_makefile", "build_and_deploy"}

InitRun(hosts) ==
    /\ pc = "banner"
    /\ host \in hosts
    /\ env = NoEnv
    /\ \/ dirs = {} /\ files = EmptyFiles
       \/ dirs = {DIR_SRC, DIR_TOOLS} /\ files = StaleFiles
    /\ out = <<>>
    /\ writes = <<>>
    /\ procs = <<>>
    /\ exitCode = NoExit
    /\ last = "none"
    /\ before = EmptyFiles

Init == InitRun(RunHosts)

\* line 379: banner() runs before the try block
BannerStep ==
    /\ pc = "banner"
    /\ pc' = "detect_env"
    /\ UNCHANGED <<host, env, dirs, files, out, writes, procs, exitCode, last, before>>

\* Ctrl-C while banner() prints: no except clause covers it.  The interpreter
\* prints the traceback and ends with status 1 (Python 3.7) or kills itself
\* with SIGINT, which the shell reports as 130 (Python 3.8 and later).
UnhandledInterrupt ==
    /\ pc = "banner"
    /\ pc' = "exit"
    /\ exitCode' \in {1, 130}
    /\ UNCHANGED <<host, env, dirs, files, out, writes, procs, last, before>>

\* lines 383-384
DetectEnvStep ==
    /\ pc = "detect_env"
    /\ env' = detect_env(host)
    /\ out' = Append(out, "Detected")
    /\ pc' = "install_deps"
    /\ UNCHANGED <<host, dirs, files, writes, procs, exitCode, last, before>>

\* the commands install_deps runs for a package manager (lines 117-135)
InstallCmds(e) ==
    IF e.pkg_mgr = "pkg"
    THEN [i \in 1..Len(e.packages) |-> "pkg install -y " \o e.packages[i]]
    ELSE IF e.pkg_mgr = "apt"
    THEN <<"sudo apt-get update", "sudo apt-get install -y">>
    ELSE IF e.pkg_mgr = "pacman" THEN <<"sudo pacman -S --noconfirm">>
    ELSE IF e.pkg_mgr = "dnf" THEN <<"sudo dnf install -y">>
    ELSE IF e.pkg_mgr = "apk" THEN <<"sudo apk add --no-cache">>
    ELSE <<>>

\* install_deps(env), lines 108-137.  Every command is silent and its result
\* is dropped; the commands of one run all succeed or all fail here.
InstallDepsStep ==
    /\ pc = "install_deps"
    /\ \E rc \in {0, 100} :
         LET cmds == InstallCmds(env)
         IN  procs' = procs \o [i \in 1..Len(cmds) |-> Proc(cmds[i], rc)]
    /\ out' = out \o <<"Installing dependencies...">>
              \o (IF env.pkg_mgr = None
                  THEN <<"No package manager detected. Please install dependencies manually:">>
                  ELSE (IF env.pkg_mgr = "apt"
                        THEN <<"Note: Using sudo for dependency installation">>
                        ELSE <<>>)
                       \o <<"Dependencies installed">>)
    /\ pc' = "setup_source"
    /\ UNCHANGED <<host, env, dirs, files, writes, exitCode, last, before>>

\* setup_source(), lines 139-157: the build directory is removed and made
\* anew, then clone, download and extraction run; no result is looked at.
SetupSourceStep ==
    /\ pc = "setup_source"
    /\ \E clone \in CloneOutcomes, wget \in WgetOutcomes :
         \E tar \in TarOutcomes(wget.files) :
            /\ dirs' = clone.dirs \cup tar.dirs
            /\ files' = tar.files @@ wget.files @@ clone.files
            /\ procs' = procs \o <<Proc("git clone", clone.rc),
                                   Proc("wget -q", wget.rc),
                                   Proc("tar -zxf", tar.rc)>>
            /\ out' = out \o <<"Setting up build directory...",
                               "Cloning Sasquatch repository...",
                               "Downloading SquashFS 4.3...">>
                      \o FailedMsg("wget -q", wget.rc)
                      \o <<"Extracting archive...">>
                      \o FailedMsg("tar -zxf", tar.rc)
                      \o <<"Source code ready">>
    /\ pc' = "apply_patches"
    /\ UNCHANGED <<host, env, writes, exitCode, last, before>>

\* the rules with the Makefile rewritten before the sources are touched
RuleOrder_MakefileFirst ==
    <<"fix_makefile", "fix_error_header", "fix_fnm_extmatch", "disable_xz_wrapper">>

\* lines 308-311: the order in which apply_universal_fixes calls the rules
RuleOrder ==
    <<"fix_error_header", "fix_fnm_extmatch", "disable_xz_wrapper", "fix_makefile">>

\* the step that follows a rule: the rule called after it, or the build
AfterRule(name) ==
    LET k == CHOOSE i \in 1..Len(RuleOrder) : RuleOrder[i] = name
    IN  IF k < Len(RuleOrder) THEN RuleOrder[k + 1] ELSE "build_and_deploy"

\* apply_patches(), lines 159-176.  os.chdir("squashfs4.3") raises
\* FileNotFoundError when the directory is missing.
ApplyPatchesStep ==
    /\ pc = "apply_patches"
    /\ IF DIR_SRC \notin dirs
       THEN /\ pc' = "except_Exception"
            /\ out' = Append(out, "Applying Sasquatch patches...")
            /\ UNCHANGED <<files, writes, procs>>
       ELSE IF Exists(files, PATCH0)
       THEN \E p \in PatchOutcomes(
                       WriteFile(files, SASQUATCH_PATCH,
                                 Replace(files[PATCH0], <<CR, NL>>, <<NL>>))) :
              /\ files' = p.files
              /\ procs' = Append(procs, Proc("patch -p0 -f -i sasquatch.patch", p.rc))
              /\ writes' = Append(writes, "apply_patches")
              /\ out' = out \o <<"Applying Sasquatch patches...", "Patches applied">>
              /\ pc' = RuleOrder[1]
       ELSE /\ out' = out \o <<"Applying Sasquatch patches...",
                               "Warning: Patch file not found, continuing without patches">>
            /\ pc' = RuleOrder[1]
            /\ UNCHANGED <<files, writes, procs>>
    /\ UNCHANGED <<host, env, dirs, exitCode, last, before>>

\* one patch rule run by apply_universal_fixes (lines 304-313): r is the
\* rule's result
RuleStep(name, r) ==
    /\ pc = name
    /\ files' = r.files
    /\ out' = out
              \o (IF name = RuleOrder[1]
                  THEN <<"Applying universal fixes for modern compilers...">>
                  ELSE <<>>)
              \o r.out
              \o (IF name = RuleOrder[Len(RuleOrder)]
                  THEN <<"All fixes applied">>
                  ELSE <<>>)
    /\ writes' = writes \o r.wrote
    /\ pc' = AfterRule(name)
    /\ UNCHANGED <<host, env, dirs, procs, exitCode, last, before>>

\* line 308
FixErrorHeaderStep ==
    RuleStep("fix_error_header", fix_error_header(files))

\* line 309
FixFnmExtmatchStep ==
    RuleStep("fix_fnm_extmatch", fix_fnm_extmatch(files))

\* line 310
DisableXzWrapperStep ==
    RuleStep("disable_xz_wrapper", disable_xz_wrapper(files))

\* line 311
FixMakefileStep ==
    RuleStep("fix_makefile", fix_makefile(files, env.prefix))

\* the success test without its first signal, the status make returned
BuildOk_ArtifactOnly(rc, built) == Exists(built, ARTIFACT)

\* line 336: result and result.returncode == 0 and os.path.exists("sasquatch")
\* (result is None when make exits non-zero: run_cmd checks the status)
BuildOk(rc, built) == rc = 0 /\ Exists(built, ARTIFACT)

\* build_and_deploy(env), lines 315-375, and main's sys.exit.  cpu_count is
\* what os.cpu_count() returns (0 for None), art whether the file sasquatch
\* exists once make has ended, installed whether the copy into the Termux
\* prefix succeeded.
BuildAndDeployStep ==
    /\ pc = "build_and_deploy"
    /\ IF DIR_TOOLS \notin dirs
       THEN /\ pc' = "except_Exception"
            /\ out' = Append(out, "Starting build process...")
            /\ UNCHANGED <<files, procs, exitCode>>
       ELSE \E clean \in {0, 2}, cpu_count \in 0..MaxCpu, rc \in {0, 2},
               art \in BOOLEAN, installed \in BOOLEAN :
              LET nproc == Nproc(cpu_count)
                  built == IF art
                           THEN (ARTIFACT :> <<"E","L","F">>) @@ files
                           ELSE Restrict(files, DOMAIN files \ {ARTIFACT})
                  ok == BuildOk(rc, built)
              IN  /\ procs' = procs \o <<Proc("make clean", clean),
                                         MakeProc(nproc, rc)>>
                  /\ pc' = "exit"
                  /\ IF ok
                     THEN /\ files' = (LOCAL_BIN :> built[ARTIFACT]) @@ built
                          /\ out' = out \o <<"Starting build process...",
                                             "Building with parallel jobs...">>
                                    \o <<"BUILD SUCCESSFUL!", "Binary saved">>
                                    \o (IF env.is_termux
                                        THEN IF installed
                                             THEN <<"Installed">>
                                             ELSE <<"Could not auto-install">>
                                        ELSE <<"To install system-wide, run:">>)
                                    \o <<"Usage">>
                          /\ exitCode' = 0
                     ELSE /\ files' = built
                          /\ out' = out \o <<"Starting build process...",
                                             "Building with parallel jobs...">>
                                    \o FailedMsg("make -j", rc)
                                    \o <<"BUILD FAILED", "Troubleshooting tips:">>
                          /\ exitCode' = 1
    /\ UNCHANGED <<host, env, dirs, writes, last, before>>

\* Ctrl-C during a step inside the try block raises KeyboardInterrupt there;
\* no step catches it (run_cmd catches CalledProcessError only, the install
\* in build_and_deploy Exception only).
Interrupt ==
    /\ pc \in TrySteps
    /\ pc' = "except_KeyboardInterrupt"
    /\ UNCHANGED <<host, env, dirs, files, out, writes, procs, exitCode, last, before>>

\* lines 406-408
ExceptKeyboardInterrupt ==
    /\ pc = "except_KeyboardInterrupt"
    /\ out' = Append(out, "Build cancelled by user")
    /\ exitCode' = 130
    /\ pc' = "exit"
    /\ UNCHANGED <<host, env, dirs, files, writes, procs, last, before>>

\* lines 409-413
ExceptException ==
    /\ pc = "except_Exception"
    /\ out' = Append(out, "Unexpected error")
    /\ exitCode' = 1
    /\ pc' = "exit"
    /\ UNCHANGED <<host, env, dirs, files, writes, procs, last, before>>

Next ==
    \/ BannerStep
    \/ UnhandledInterrupt
    \/ DetectEnvStep
    \/ InstallDepsStep
    \/ SetupSourceStep
    \/ ApplyPatchesStep
    \/ FixErrorHeaderStep
    \/ FixFnmExtmatchStep
    \/ DisableXzWrapperStep
    \/ FixMakefileStep
    \/ BuildAndDeployStep
    \/ Interrupt
    \/ ExceptKeyboardInterrupt
    \/ ExceptException

\* a run of the program on one of RunHosts
Spec == Init /\ [][Next]_vars

\* detect_env alone, on every host of AllHosts
InitEnv == InitRun(AllHosts)

NextEnv == BannerStep \/ DetectEnvStep

SpecEnv == InitEnv /\ [][NextEnv]_vars


-----------------------------------------------------------------------------
(* The patch rules on their own: any rule, any number of times, in any      *)
(* order, on trees whose files are put together from the pieces below.      *)

\* the most pieces a file of such a tree is put together from
MaxPieces == 3

RECURSIVE Compositions(_, _)
\* every concatenation of at most n pieces of pool
Compositions(pool, n) ==
    IF n = 0 THEN {<<>>}
    ELSE LET shorter == Compositions(pool, n - 1)
         IN  shorter \cup {p \o s : p \in pool, s \in shorter}

H_DEF ==
    <<"i","n","t"," ","v","e","r","b","o","s","e"," ","="," ","0",";">>
H_INT ==
    <<"i","n","t">>
H_VERBOSE ==
    <<" ","v","e","r","b","o","s","e">>
H_INIT ==
    <<" ","="," ","0">>
H_SEMI ==
    <<";">>
H_TABS ==
    <<"\t"," ">>
H_X ==
    <<"x">>
C_INCLUDE ==
    <<"#","i","n","c","l","u","d","e"," ","<","a",".","h",">">>
C_X ==
    <<"_","X">>
C_CRLF ==
    <<"\r","\n">>
M_CFLAGS ==
    <<"C","F","L","A","G","S"," ","="," ","-","I",".","/","L","Z","M","A",
      " ">>
M_LIBS ==
    <<"L","I","B","S"," ","+","="," ","-","l","l","z","m","a"," ">>
M_O2 ==
    <<"-","O","2"," ">>
M_WEQ ==
    <<"-","W","e","r","r","o","r","=","x"," ">>
M_WER ==
    <<"-","W","e","r">>
M_ROR ==
    <<"r","o","r">>

ErrorHPieces == {H_DEF, H_INT, H_VERBOSE, H_INIT, H_SEMI, H_TABS, H_X, <<NL>>}

UnsquashfsPieces ==
    {C_INCLUDE, S_intverbose0, S_ifndef, fnm_fix, C_X, C_CRLF, <<NL>>, <<" ">>}

MakefilePieces ==
    {M_CFLAGS, M_LIBS, M_O2, M_WEQ, M_WER, M_ROR, S_Werror, S_XZ, <<NL>>, <<" ">>}

\* the install prefixes of the profiles the rules are run with
RulePrefixes == {S_usr, S_usr_local}

\* the trees: the header alone, the header with unsquashfs.c, and the
\* Makefile alone, each over its compositions (a rule whose file is missing
\* skips it), and the patched tree with any of its files missing
RuleTrees ==
    {(ERROR_H :> h) : h \in Compositions(ErrorHPieces, MaxPieces)}
    \cup {(ERROR_H :> h) @@ (UNSQUASHFS_C :> c) :
            h \in {H_DEF, H_TABS \o H_INT \o H_TABS \o H_VERBOSE \o H_INIT \o H_SEMI},
            c \in Compositions(UnsquashfsPieces, MaxPieces)}
    \cup {(MAKEFILE :> m) : m \in Compositions(MakefilePieces, MaxPieces)}
    \cup {Restrict(PatchedFiles, keep) :
            keep \in SUBSET {ERROR_H, UNSQUASHFS_C, XZ_WRAPPER_C, XZ_WRAPPER_H, MAKEFILE}}

InitRules ==
    /\ pc = "rules"
    /\ host = [termux_dir |-> FALSE, which |-> {}, environ |-> EmptyFiles]
    /\ files \in RuleTrees
    /\ \E p \in RulePrefixes :
         /\ env = [DefaultInfo EXCEPT !.prefix = p]
         /\ Exists(files, MAKEFILE) \/ p = S_usr
    /\ dirs = {DIR_SRC, DIR_TOOLS}
    /\ out = <<>>
    /\ writes = <<>>
    /\ procs = <<>>
    /\ exitCode = NoExit
    /\ last = "none"
    /\ before = files

\* one call of a rule (or of apply_universal_fixes) with result r
ApplyRule(name, r) ==
    /\ pc = "rules"
    /\ files' = r.files
    /\ out' = r.out
    /\ writes' = r.wrote
    /\ last' = name
    /\ before' = files
    /\ UNCHANGED <<pc, host, env, dirs, procs, exitCode>>

RuleFixErrorHeader == ApplyRule("fix_error_header", fix_error_header(files))

RuleFixFnmExtmatch == ApplyRule("fix_fnm_extmatch", fix_fnm_extmatch(files))

RuleDisableXzWrapper == ApplyRule("disable_xz_wrapper", disable_xz_wrapper(files))

RuleFixMakefile == ApplyRule("fix_makefile", fix_makefile(files, env.prefix))

RuleApplyUniversalFixes ==
    ApplyRule("apply_universal_fixes", apply_universal_fixes(files, env.prefix))

NextRules ==
    \/ RuleFixErrorHeader
    \/ RuleFixFnmExtmatch
    \/ RuleDisableXzWrapper
    \/ RuleFixMakefile
    \/ RuleApplyUniversalFixes

SpecRules == InitRules /\ [][NextRules]_vars

-----------------------------------------------------------------------------
(* The patch rules' contracts, over SpecRules *)

\* the files after the rule named name is applied to the files fs under the
\* install prefix p
RuleResult(name, fs, p) ==
    CASE name = "fix_error_header" -> fix_error_header(fs).files
      [] name = "fix_fnm_extmatch" -> fix_fnm_extmatch(fs).files
      [] name = "disable_xz_wrapper" -> disable_xz_wrapper(fs).files
      [] name = "fix_makefile" -> fix_makefile(fs, p).files
      [] name = "apply_universal_fixes" -> apply_universal_fixes(fs, p).files
      [] OTHER -> fs

\* C1: after any of the four rules, or the whole sequence, has been applied to
\* a tree, applying the same one again leaves every file byte-identical.
C1_Idempotent ==
    last # "none" => RuleResult(last, files, env.prefix) = files

\* the line without its whitespace
Squeeze(line) == SelectSeq(line, LAMBDA c : ~IsWs(c))

\* a line of the form `int verbose = 0;` with arbitrary whitespace
IsVerboseDef(line) ==
    /\ Squeeze(line) = <<"i","n","t","v","e","r","b","o","s","e","=","0",";">>
    /\ StripStartsWith(line, S_int)
    /\ IsWs(line[SkipWs(line, 1) + Len(S_int)])

\* the 1-based indices of the lines that define verbose
VerboseDefs(lines) == {k \in 1..Len(lines) : IsVerboseDef(lines[k])}

\* a definition at line k of lines follows the last #include directive with
\* nothing but blank lines and comments between them
AfterLastInclude(lines, k) ==
    /\ LastInclude(lines) >= 0
    /\ LastInclude(lines) + 1 < k
    /\ \A j \in (LastInclude(lines) + 2)..(k - 1) :
          Squeeze(lines[j]) = <<>> \/ StripStartsWith(lines[j], <<"/", "*">>)

\* C2: when error.h has a line of the form `int verbose = 0;` and unsquashfs.c
\* has none, after fix_error_header error.h holds `extern int verbose;` and no
\* definition, and unsquashfs.c holds exactly one definition, placed after its
\* last #include directive.
C2_DuplicateSymbol ==
    (/\ last = "fix_error_header"
     /\ Exists(before, ERROR_H) /\ Exists(before, UNSQUASHFS_C)
     /\ VerboseDefs(Split(before[ERROR_H])) # {}
     /\ VerboseDefs(Split(before[UNSQUASHFS_C])) = {})
    => /\ Contains(files[ERROR_H], S_extern)
       /\ VerboseDefs(Split(files[ERROR_H])) = {}
       /\ Cardinality(VerboseDefs(Split(files[UNSQUASHFS_C]))) = 1
       /\ \A k \in VerboseDefs(Split(files[UNSQUASHFS_C])) :
             AfterLastInclude(Split(files[UNSQUASHFS_C]), k)

\* C3: after fix_fnm_extmatch, an unsquashfs.c that did not start with the
\* guard block is the guard block followed by its original content, and one
\* that started with the guard block is byte-identical.
C3_MacroShim ==
    (last = "fix_fnm_extmatch" /\ Exists(before, UNSQUASHFS_C))
    => IF StartsWith(before[UNSQUASHFS_C], fnm_fix)
       THEN files[UNSQUASHFS_C] = before[UNSQUASHFS_C]
       ELSE files[UNSQUASHFS_C] = fnm_fix \o before[UNSQUASHFS_C]

\* the whitespace-separated flags of a line
Tokens(line) ==
    {SubSeq(line, ij[1], ij[2]) : ij \in
        {ij \in (1..Len(line)) \X (1..Len(line)) :
            /\ ij[1] <= ij[2]
            /\ \A k \in ij[1]..ij[2] : ~IsWs(line[k])
            /\ (ij[1] = 1 \/ IsWs(line[ij[1] - 1]))
            /\ (ij[2] = Len(line) \/ IsWs(line[ij[2] + 1]))}}

\* line a holds the flag -Werror among others, and line b is its rewrite: no
\* -Werror flag and every other flag of a
WerrorStripped(a, b) ==
    S_Werror \in Tokens(a) =>
        /\ S_Werror \notin Tokens(b)
        /\ Tokens(a) \ {S_Werror} \subseteq Tokens(b)

\* the lines a of the Makefile before and b after the rule correspond one to
\* one, and each line with the flag -Werror is stripped of it alone
LinesStripped(a, b) ==
    /\ Len(a) = Len(b)
    /\ \A i \in 1..Len(a) : WerrorStripped(a[i], b[i])

\* C4: after fix_makefile, every Makefile line that held the flag -Werror
\* among other flags no longer holds it and still holds every other flag,
\* flags such as -Werror=x and the CFLAGS and LIBS lines included.
C4_WerrorStripped ==
    (last = "fix_makefile" /\ Exists(before, MAKEFILE))
    => LinesStripped(Split(before[MAKEFILE]), Split(files[MAKEFILE]))

-----------------------------------------------------------------------------
(* What the claims speak about *)

\* log() printed msg
Logged(msg) == \E i \in 1..Len(out) : out[i] = msg

\* run_cmd started cmd
Ran(cmd) == \E i \in 1..Len(procs) : procs[i].cmd = cmd

\* cmd was started and ended with a non-zero status
Failed(cmd) == \E i \in 1..Len(procs) : procs[i].cmd = cmd /\ procs[i].rc # 0

\* cmd was started and ended with status 0
Succeeded(cmd) == \E i \in 1..Len(procs) : procs[i].cmd = cmd /\ procs[i].rc = 0

\* the steps that wrote to the tree so far
Writers == {writes[i] : i \in 1..Len(writes)}

\* the run ended and no Ctrl-C ended it
EndedUninterrupted == pc = "exit" /\ exitCode # 130

\* a Termux marker is present on the host
TermuxMarker(h) ==
    \/ h.termux_dir
    \/ /\ "PREFIX" \in DOMAIN h.environ
       /\ Contains(h.environ["PREFIX"], S_com_termux)

\* the profile of package manager number i of the priority order
ProfileOf(i) ==
    [is_termux |-> FALSE, prefix |-> S_usr, pkg_mgr |-> PkgMgrs[i],
     packages |-> <<AptPackages, PacmanPackages, DnfPackages, ApkPackages>>[i]]

\* detect_env has returned
Detected == pc = "install_deps"

\* the precedence of the profiles, the unknown profile's prefix left open
C5_Precedence ==
    Detected =>
        /\ TermuxMarker(host) =>
              /\ env.is_termux
              /\ env.pkg_mgr = "pkg"
              /\ env.packages = TermuxPackages
        /\ ~TermuxMarker(host) =>
              /\ \A i \in 1..Len(PkgMgrs) :
                    (/\ PkgMgrs[i] \in host.which
                     /\ \A j \in 1..(i - 1) : PkgMgrs[j] \notin host.which)
                    => env = ProfileOf(i)
              /\ host.which = {} =>
                    /\ ~env.is_termux
                    /\ env.pkg_mgr = None
                    /\ env.packages = <<>>

\* C5 (as stated): detect_env returns exactly one profile; a Termux marker
\* gives the Termux profile whatever package managers resolve; otherwise the
\* first resolvable of apt, pacman, dnf, apk decides; with none resolvable the
\* unknown profile has no package manager, no packages and prefix /usr.
C5_AsStated ==
    /\ C5_Precedence
    /\ (Detected /\ ~TermuxMarker(host) /\ host.which = {}) => env.prefix = S_usr

\* C5 (amended): as stated, except that the unknown profile keeps the default
\* install prefix /usr/local.
C5_DetectEnv ==
    /\ C5_Precedence
    /\ (Detected /\ ~TermuxMarker(host) /\ host.which = {}) => env.prefix = S_usr_local

\* detect_env returned the unknown profile on a host with no marker and no
\* package manager
C5_Witness ==
    /\ Detected
    /\ ~TermuxMarker(host)
    /\ host.which = {}
    /\ env.pkg_mgr = None

\* the `make -j<n>` processes started so far
MakeProcs == {i \in 1..Len(procs) : procs[i].cmd = "make -j"}

\* C6: the make process runs with CC=clang and CXX=clang++ whenever the
\* profile specifies the overrides (Termux); with a profile that specifies
\* none its environment is the unmodified process environment.
C6_CompilerOverrides ==
    \A i \in MakeProcs :
        /\ env.is_termux =>
              /\ {"CC", "CXX"} \subseteq DOMAIN procs[i].environ
              /\ procs[i].environ["CC"] = "clang"
              /\ procs[i].environ["CXX"] = "clang++"
        /\ ~env.is_termux => procs[i].environ = host.environ

C8_AcquisitionFatal ==
    (Failed("wget -q") \/ Failed("tar -zxf")) =>
        /\ writes = <<>>
        /\ ~Ran("make -j")
        /\ EndedUninterrupted => exitCode = 1

\* the clone of the patch repository failed, download and extraction succeeded
CloneFailedArchiveOk ==
    Failed("git clone") /\ Succeeded("wget -q") /\ Succeeded("tar -zxf")

\* C9: when the clone fails and the archive is fetched and extracted, rule 1
\* is skipped and a warning is logged for it, rules 2-5 are applied in the
\* order fix_error_header, fix_fnm_extmatch, disable_xz_wrapper, fix_makefile,
\* and the run, if no Ctrl-C ends it, goes on to start make.
C9_CloneFailureDegrades ==
    CloneFailedArchiveOk =>
        /\ "apply_patches" \notin Writers
        /\ ~Ran("patch -p0 -f -i sasquatch.patch")
        /\ Logged("Applying Sasquatch patches...")
           => Logged("Warning: Patch file not found, continuing without patches")
        /\ \E k \in 0..Len(RuleOrder) :
              writes = SubSeq(<<"fix_error_header", "fix_fnm_extmatch",
                                "disable_xz_wrapper", "fix_makefile">>, 1, k)
        /\ pc # "except_Exception"
        /\ EndedUninterrupted =>
              /\ Len(writes) = 4
              /\ Ran("make -j")

\* a run whose clone failed ended with the warning logged, the four rules
\* applied and make started
C9_Witness ==
    /\ CloneFailedArchiveOk
    /\ EndedUninterrupted
    /\ Logged("Warning: Patch file not found, continuing without patches")
    /\ Len(writes) = 4
    /\ Ran("make -j")

\* C10: when squashfs-tools/Makefile is missing as fix_makefile is reached,
\* the run does not go on to start make and, if no Ctrl-C ends it, ends with
\* exit code 1.
C10_MissingMakefileFatal ==
    Logged("Error: Makefile not found!") =>
        /\ ~Ran("make -j")
        /\ EndedUninterrupted => exitCode = 1

====
